---- MODULE Spec2Model ----
(***************************************************************************)
(* A model of aoc_utils/grid.py: the 2-D grid toolkit (neighbour listing,  *)
(* flood-fill region discovery, partition of a grid into regions, region   *)
(* perimeter, direction rotation and the collinearity test can_see).       *)
(*                                                                         *)
(* Representation.  A grid is a sequence of rows, each a sequence of cell  *)
(* values; the code's 0-based cell (i, j) is grid[i + 1][j + 1].  Cell     *)
(* values are the integers 1 and 2 (the letters A and B of a puzzle input): *)
(* two values tell equal from different and lower from higher, which is    *)
(* all a predicate reads.  A Tile is the record [i, j, value]; a Position  *)
(* and a Direction are pairs.  A Region is the set of its tiles: the code  *)
(* makes the list from a set, so it has no duplicates and its order is     *)
(* left to the hash order, which nothing in the code depends on.           *)
(***************************************************************************)
EXTENDS Integers, Sequences, FiniteSets

\* Bounds of the model.
MaxRows == 2
MaxCols == 2
MaxCoord == 3
MaxDir == 1
MaxTurns == 4

VARIABLES
    grid,       \* the Grid under query, fixed after construction
    predicate,  \* the name of the MatchPredicate the caller passes
    pc,         \* "idle", or "fill" while the loop of get_region runs
    call,       \* the call in progress or last completed: its name and arguments
    ret,        \* what the last completed call returned, under the name of its kind
    regions,    \* the regions the caller holds from the last region query
    tiles,      \* get_region: the set of discovered tiles
    stack,      \* get_region: the work stack (top is the last element)
    added       \* get_region: the tiles passed to tiles.add, in order

vars == <<grid, predicate, pc, call, ret, regions, tiles, stack, added>>

----------------------------------------------------------------------------
\* Types and constants of the module.

Tile(i, j, value) == [i |-> i, j |-> j, value |-> value]

UP == <<-1, 0>>
DOWN == <<1, 0>>
LEFT == <<0, -1>>
RIGHT == <<0, 1>>

\* The order in which get_neighbours and get_perimeter scan the four steps.
ScanOrder == <<UP, RIGHT, DOWN, LEFT>>

match_always(a, b) == TRUE

match_value_ignores_value(a, b) == TRUE

match_value(a, b) == a.value = b.value

\* Two caller-supplied predicates: one that is not symmetric, one that is
\* symmetric but not transitive.
match_ge(a, b) == b.value >= a.value

match_differ(a, b) == a.value # b.value

Predicates == {"match_always", "match_value", "match_ge", "match_differ"}

\* predicate(tile, neighbour) for the predicate named p.
Holds(p, a, b) ==
    CASE p = "match_always" -> match_always(a, b)
      [] p = "match_value" -> match_value(a, b)
      [] p = "match_ge" -> match_ge(a, b)
      [] p = "match_differ" -> match_differ(a, b)

shape(g) == <<Len(g), Len(g[1])>>

\* The grids create_grid can build within the bounds: every rectangular
\* grid of at most MaxRows x MaxCols cells, and the 3 x 3 ring AAA/ABA/AAA.
RingGrid == <<<<1, 1, 1>>, <<1, 2, 1>>, <<1, 1, 1>>>>

Values == {1, 2}

Grids ==
    UNION {[1..r -> [1..c -> Values]] : r \in 1..MaxRows, c \in 1..MaxCols}
        \cup {RingGrid}

----------------------------------------------------------------------------
\* get_neighbours

is_outside_bounds_skips_first_row(neighbour_i, neighbour_j, row_count, col_count) ==
    \/ neighbour_i < 1
    \/ neighbour_i >= row_count
    \/ neighbour_j < 0
    \/ neighbour_j >= col_count

is_outside_bounds(neighbour_i, neighbour_j, row_count, col_count) ==
    \/ neighbour_i < 0
    \/ neighbour_i >= row_count
    \/ neighbour_j < 0
    \/ neighbour_j >= col_count

\* The for loop of get_neighbours from the k-th step of ScanOrder on.
RECURSIVE neighbours_loop(_, _, _, _, _)
neighbours_loop(k, neighbours, tile, g, p) ==
    IF k > Len(ScanOrder) THEN neighbours
    ELSE
        LET neighbour_i == tile.i + ScanOrder[k][1]
            neighbour_j == tile.j + ScanOrder[k][2]
        IN  IF is_outside_bounds(neighbour_i, neighbour_j, shape(g)[1], shape(g)[2])
            THEN neighbours_loop(k + 1, neighbours, tile, g, p)
            ELSE
                LET neighbour ==
                        Tile(neighbour_i, neighbour_j, g[neighbour_i + 1][neighbour_j + 1])
                IN  IF Holds(p, tile, neighbour)
                    THEN neighbours_loop(k + 1, Append(neighbours, neighbour), tile, g, p)
                    ELSE neighbours_loop(k + 1, neighbours, tile, g, p)

get_neighbours(tile, g, p) == neighbours_loop(1, <<>>, tile, g, p)

----------------------------------------------------------------------------
\* get_region

\* One iteration of the while loop: pop, and when the popped tile is new,
\* add it and push its neighbours that are not yet discovered.  `adds' lists
\* the tiles this iteration passed to tiles.add.
fill_step_without_membership_test(discovered, work, g, p) ==
    LET current == work[Len(work)]
        rest == SubSeq(work, 1, Len(work) - 1)
        now == discovered \cup {current}
    IN  [tiles |-> now,
         stack |-> rest \o SelectSeq(get_neighbours(current, g, p),
                                     LAMBDA neighbour : neighbour \notin now),
         adds |-> <<current>>]

fill_step_ignores_predicate(discovered, work, g, p) ==
    LET current == work[Len(work)]
        rest == SubSeq(work, 1, Len(work) - 1)
        now == discovered \cup {current}
    IN  IF current \notin discovered
        THEN [tiles |-> now,
              stack |-> rest \o SelectSeq(get_neighbours(current, g, "match_always"),
                                          LAMBDA neighbour : neighbour \notin now),
              adds |-> <<current>>]
        ELSE [tiles |-> discovered, stack |-> rest, adds |-> <<>>]

fill_step(discovered, work, g, p) ==
    LET current == work[Len(work)]
        rest == SubSeq(work, 1, Len(work) - 1)
        now == discovered \cup {current}
    IN  IF current \notin discovered
        THEN [tiles |-> now,
              stack |-> rest \o SelectSeq(get_neighbours(current, g, p),
                                          LAMBDA neighbour : neighbour \notin now),
              adds |-> <<current>>]
        ELSE [tiles |-> discovered, stack |-> rest, adds |-> <<>>]

\* The while loop run to its end.
RECURSIVE fill_loop(_, _, _, _)
fill_loop(discovered, work, g, p) ==
    IF work = <<>> THEN discovered
    ELSE LET next == fill_step(discovered, work, g, p)
         IN  fill_loop(next.tiles, next.stack, g, p)

get_region(tile, g, p) == fill_loop({}, <<tile>>, g, p)

----------------------------------------------------------------------------
\* get_all_regions

\* The body of the nested for loops at cell (i, j).
regions_body_without_visited_test(acc, i, j, g, p) ==
    LET tile == Tile(i, j, g[i + 1][j + 1])
        region == get_region(tile, g, p)
    IN  [regions |-> Append(acc.regions, region),
         visited_tiles |-> acc.visited_tiles \cup region]

regions_body(acc, i, j, g, p) ==
    LET tile == Tile(i, j, g[i + 1][j + 1])
    IN  IF tile \in acc.visited_tiles THEN acc
        ELSE LET region == get_region(tile, g, p)
             IN  [regions |-> Append(acc.regions, region),
                  visited_tiles |-> acc.visited_tiles \cup region]

\* The nested for loops, row-major: k counts the cells already scanned.
RECURSIVE regions_loop(_, _, _, _)
regions_loop(k, acc, g, p) ==
    IF k >= Len(g) * Len(g[1]) THEN acc.regions
    ELSE regions_loop(k + 1,
                      regions_body(acc, k \div Len(g[1]), k % Len(g[1]), g, p),
                      g, p)

get_all_regions(g, p) ==
    regions_loop(0, [regions |-> <<>>, visited_tiles |-> {}], g, p)

----------------------------------------------------------------------------
\* get_perimeter

\* The inner for loop: the number of sides of `tile' that are edges.
tile_edges_skips_left(tile, coordinates) ==
    Cardinality({k \in 1..(Len(ScanOrder) - 1) :
        <<tile.i + ScanOrder[k][1], tile.j + ScanOrder[k][2]>> \notin coordinates})

tile_edges_counts_shared_sides(tile, coordinates) ==
    Cardinality({k \in 1..Len(ScanOrder) :
        <<tile.i + ScanOrder[k][1], tile.j + ScanOrder[k][2]>> \in coordinates})

tile_edges(tile, coordinates) ==
    Cardinality({k \in 1..Len(ScanOrder) :
        <<tile.i + ScanOrder[k][1], tile.j + ScanOrder[k][2]>> \notin coordinates})

\* The outer for loop over the tiles still to visit.
RECURSIVE perimeter_loop(_, _)
perimeter_loop(todo, coordinates) ==
    IF todo = {} THEN 0
    ELSE LET tile == CHOOSE t \in todo : TRUE
         IN  tile_edges(tile, coordinates) + perimeter_loop(todo \ {tile}, coordinates)

\* Counts only the sides that leave the bounding box of the region.
get_perimeter_ignores_holes(region) ==
    LET rows == {tile.i : tile \in region}
        cols == {tile.j : tile \in region}
    IN  Cardinality({s \in region \X (1..Len(ScanOrder)) :
            \/ s[1].i + ScanOrder[s[2]][1] \notin rows
            \/ s[1].j + ScanOrder[s[2]][2] \notin cols})

get_perimeter(region) ==
    perimeter_loop(region, {<<tile.i, tile.j>> : tile \in region})

----------------------------------------------------------------------------
\* get_tiles with the default predicate, as a set.

get_tiles(g) ==
    {Tile(i, j, g[i + 1][j + 1]) : i \in 0..(Len(g) - 1), j \in 0..(Len(g[1]) - 1)}

----------------------------------------------------------------------------
\* Directional geometry

turn_right_is_turn_left(direction) == <<-direction[2], direction[1]>>

turn_right(direction) == <<direction[2], -direction[1]>>

turn_left(direction) == <<-direction[2], direction[1]>>

can_see_swapped_product(viewpoint, target, direction) ==
    LET vertical_delta == target[1] - viewpoint[1]
        horizontal_delta == target[2] - viewpoint[2]
    IN  IF direction[1] = 0 /\ vertical_delta # 0 THEN FALSE
        ELSE IF direction[2] = 0 /\ horizontal_delta # 0 THEN FALSE
        ELSE vertical_delta * direction[1] = horizontal_delta * direction[2]

can_see(viewpoint, target, direction) ==
    LET vertical_delta == target[1] - viewpoint[1]
        horizontal_delta == target[2] - viewpoint[2]
    IN  IF direction[1] = 0 /\ vertical_delta # 0 THEN FALSE
        ELSE IF direction[2] = 0 /\ horizontal_delta # 0 THEN FALSE
        ELSE vertical_delta * direction[2] = horizontal_delta * direction[1]

Units == {UP, DOWN, LEFT, RIGHT}

Positions == (0..MaxCoord) \X (0..MaxCoord)

Directions == ((-MaxDir)..MaxDir) \X ((-MaxDir)..MaxDir)

Turn(name, direction) ==
    IF name = "turn_right" THEN turn_right(direction) ELSE turn_left(direction)

----------------------------------------------------------------------------
\* The state machine: a caller that builds a grid once and then queries it.

Init ==
    /\ grid \in Grids
    /\ predicate \in Predicates
    /\ pc = "idle"
    /\ call = [op |-> "none"]
    /\ ret = [pending |-> TRUE]
    /\ regions = <<>>
    /\ tiles = {}
    /\ stack = <<>>
    /\ added = <<>>

\* get_neighbours(tile, grid, predicate)
GetNeighbours(tile) ==
    /\ pc = "idle"
    /\ call' = [op |-> "get_neighbours", tile |-> tile]
    /\ ret' = [neighbours |-> get_neighbours(tile, grid, predicate)]
    /\ regions' = <<>>
    /\ tiles' = {}
    /\ stack' = <<>>
    /\ added' = <<>>
    /\ UNCHANGED <<grid, predicate, pc>>

\* get_region(tile, grid, predicate): entry, up to the while loop.
GetRegion(tile) ==
    /\ pc = "idle"
    /\ pc' = "fill"
    /\ call' = [op |-> "get_region", tile |-> tile]
    /\ ret' = [pending |-> TRUE]
    /\ regions' = <<>>
    /\ tiles' = {}
    /\ stack' = <<tile>>
    /\ added' = <<>>
    /\ UNCHANGED <<grid, predicate>>

\* get_region: one iteration of the while loop.
FillStep ==
    /\ pc = "fill"
    /\ stack # <<>>
    /\ LET next == fill_step(tiles, stack, grid, predicate)
       IN  /\ tiles' = next.tiles
           /\ stack' = next.stack
           /\ added' = added \o next.adds
    /\ UNCHANGED <<grid, predicate, pc, call, ret, regions>>

\* get_region: the loop has ended, return Region(list(tiles)).
FillReturn ==
    /\ pc = "fill"
    /\ stack = <<>>
    /\ pc' = "idle"
    /\ ret' = [region |-> tiles]
    /\ regions' = <<tiles>>
    /\ UNCHANGED <<grid, predicate, call, tiles, stack, added>>

\* get_all_regions(grid, predicate)
GetAllRegions ==
    /\ pc = "idle"
    /\ call' = [op |-> "get_all_regions"]
    /\ ret' = [regions |-> get_all_regions(grid, predicate)]
    /\ regions' = ret'.regions
    /\ tiles' = {}
    /\ stack' = <<>>
    /\ added' = <<>>
    /\ UNCHANGED <<grid, predicate, pc>>

\* get_perimeter(region)
GetPerimeter(region) ==
    /\ pc = "idle"
    /\ call' = [op |-> "get_perimeter", region |-> region]
    /\ ret' = [perimeter |-> get_perimeter(region)]
    /\ tiles' = {}
    /\ stack' = <<>>
    /\ added' = <<>>
    /\ UNCHANGED <<grid, predicate, pc, regions>>

\* turn_right / turn_left, of a fresh direction or of the direction the
\* previous turn returned; call.chain lists the turns made since call.origin.
TurnFresh(name, direction) ==
    /\ pc = "idle"
    /\ call' = [op |-> name, direction |-> direction,
                origin |-> direction, chain |-> <<name>>]
    /\ ret' = [direction |-> Turn(name, direction)]
    /\ UNCHANGED <<grid, predicate, pc, regions, tiles, stack, added>>

TurnAgain(name) ==
    /\ pc = "idle"
    /\ call.op \in {"turn_right", "turn_left"}
    /\ Len(call.chain) < MaxTurns
    /\ call' = [op |-> name, direction |-> ret.direction,
                origin |-> call.origin, chain |-> Append(call.chain, name)]
    /\ ret' = [direction |-> Turn(name, ret.direction)]
    /\ UNCHANGED <<grid, predicate, pc, regions, tiles, stack, added>>

\* can_see(viewpoint, target, direction)
CanSee(viewpoint, target, direction) ==
    /\ pc = "idle"
    /\ call' = [op |-> "can_see", viewpoint |-> viewpoint,
                target |-> target, direction |-> direction]
    /\ ret' = [seen |-> can_see(viewpoint, target, direction)]
    /\ UNCHANGED <<grid, predicate, pc, regions, tiles, stack, added>>

\* The region engine: neighbours, regions, and the perimeter of a region
\* the caller got back.
Next ==
    \/ \E tile \in get_tiles(grid) : GetNeighbours(tile)
    \/ \E tile \in get_tiles(grid) : GetRegion(tile)
    \/ FillStep
    \/ FillReturn
    \/ GetAllRegions
    \/ \E k \in 1..Len(regions) : GetPerimeter(regions[k])

Spec == Init /\ [][Next]_vars

\* The flood fill is a sequential loop: while it runs, its next iteration
\* (or its return) is the only thing that can happen, and it happens.
FairSpec == Spec /\ WF_vars(FillStep) /\ WF_vars(FillReturn)

\* The perimeter of an arbitrary collection of tiles with distinct
\* coordinates: any subset of the tiles of a grid, connected or not.
\* get_perimeter reads nothing but its argument and keeps nothing between
\* calls, so one call per behaviour covers it.
NextPerimeter ==
    /\ call.op = "none"
    /\ \E region \in SUBSET get_tiles(grid) : GetPerimeter(region)

InitPerimeter == Init /\ predicate = "match_always"

SpecPerimeter == InitPerimeter /\ [][NextPerimeter]_vars

\* Directional geometry does not read the grid.  Turns chain (the caller
\* turns the direction it got back); can_see keeps nothing between calls, so
\* one call per behaviour covers it.
NextGeometry ==
    \/ \E name \in {"turn_right", "turn_left"}, direction \in Directions :
            TurnFresh(name, direction)
    \/ \E name \in {"turn_right", "turn_left"} : TurnAgain(name)
    \/ /\ call.op = "none"
       /\ \E viewpoint \in Positions, target \in Positions, direction \in Directions :
            CanSee(viewpoint, target, direction)

InitGeometry == Init /\ shape(grid) = <<1, 1>> /\ predicate = "match_always"

SpecGeometry == InitGeometry /\ [][NextGeometry]_vars

----------------------------------------------------------------------------
\* Vocabulary of the properties, stated without the operators above.

Coordinates(region) == {<<tile.i, tile.j>> : tile \in region}

\* b is one axis-aligned unit step away from a.
Adjacent(a, b) ==
    \/ a.i = b.i /\ (b.j - a.j) \in {-1, 1}
    \/ a.j = b.j /\ (b.i - a.i) \in {-1, 1}

\* The tiles of the grid reachable from a tile of S by a chain of steps,
\* each from a tile to an adjacent tile of the grid with predicate(tile, next).
RECURSIVE ReachFrom(_, _)
ReachFrom(S, p) ==
    LET N == S \cup {b \in get_tiles(grid) :
                        \E a \in S : Adjacent(a, b) /\ Holds(p, a, b)}
    IN  IF N = S THEN S ELSE ReachFrom(N, p)

\* The maximal 4-connected area of equal value around a set of tiles.
RECURSIVE SameValueArea(_)
SameValueArea(S) ==
    LET N == S \cup {b \in get_tiles(grid) :
                        \E a \in S : Adjacent(a, b) /\ a.value = b.value}
    IN  IF N = S THEN S ELSE SameValueArea(N)

\* The predicate gives the same answer in both directions on the grid.
SymmetricOnGrid ==
    \A a, b \in get_tiles(grid) : Holds(predicate, a, b) = Holds(predicate, b, a)

Uniform == \A a, b \in get_tiles(grid) : a.value = b.value

\* The number of the returned regions that hold the cell (i, j).
RegionsHolding(i, j) ==
    Cardinality({k \in 1..Len(ret.regions) : <<i, j>> \in Coordinates(ret.regions[k])})

Cells == (0..(Len(grid) - 1)) \X (0..(Len(grid[1]) - 1))

Returned(op) == pc = "idle" /\ call.op = op

----------------------------------------------------------------------------
\* C1 as stated: for every predicate, symmetric or not, each cell of the grid
\* is in exactly one of the regions get_all_regions returns.
C1_EveryPredicatePartitions ==
    Returned("get_all_regions") =>
        \A c \in Cells : RegionsHolding(c[1], c[2]) = 1

\* C1 amended: get_all_regions returns only tiles of the grid and every cell
\* is in at least one returned region, whatever the predicate; when the
\* predicate is symmetric on the grid, every cell is in exactly one region
\* and the regions are pairwise disjoint.
C1_SymmetricPredicatePartitions ==
    Returned("get_all_regions") =>
        /\ \A k \in 1..Len(ret.regions) : ret.regions[k] \subseteq get_tiles(grid)
        /\ \A c \in Cells : RegionsHolding(c[1], c[2]) >= 1
        /\ SymmetricOnGrid =>
            /\ \A c \in Cells : RegionsHolding(c[1], c[2]) = 1
            /\ \A k, m \in 1..Len(ret.regions) : k # m => ret.regions[k] \cap ret.regions[m] = {}

C1_Witness ==
    /\ Returned("get_all_regions")
    /\ predicate = "match_differ"
    /\ Len(ret.regions) >= 2
    /\ \E k \in 1..Len(ret.regions) : Cardinality(ret.regions[k]) >= 2

\* C2: with value-equality, get_region returns exactly the maximal
\* 4-connected area of the seed's value around the seed, each coordinate once.
C2_RegionIsSameValueArea ==
    (Returned("get_region") /\ predicate = "match_value") =>
        /\ ret.region = SameValueArea({call.tile})
        /\ Cardinality(Coordinates(ret.region)) = Cardinality(ret.region)

C2_Witness ==
    /\ Returned("get_region")
    /\ predicate = "match_value"
    /\ Cardinality(ret.region) >= 2
    /\ ret.region # get_tiles(grid)

\* C3 as stated: for any predicate, every tile of a region get_region
\* returned is reachable from every other tile of it.
C3_MutuallyReachable ==
    Returned("get_region") =>
        \A a, b \in ret.region : b \in ReachFrom({a}, predicate)

\* C3 amended: every tile of the region is reachable from the seed by a
\* chain of steps that each satisfy the predicate; when the predicate is
\* symmetric on the grid, every tile is reachable from every other one.
C3_ReachableFromSeed ==
    Returned("get_region") =>
        /\ \A b \in ret.region : b \in ReachFrom({call.tile}, predicate)
        /\ SymmetricOnGrid => \A a, b \in ret.region : b \in ReachFrom({a}, predicate)

C3_Witness ==
    /\ Returned("get_region")
    /\ predicate = "match_ge"
    /\ Cardinality(ret.region) >= 2
    /\ ret.region # get_tiles(grid)

\* The place of the step from tile a to its neighbour b in the order up,
\* right, down, left (rows grow downwards).
StepRank(a, b) ==
    IF b.i < a.i THEN 1 ELSE IF b.j > a.j THEN 2 ELSE IF b.i > a.i THEN 3 ELSE 4

\* C4: get_neighbours returns at most 4 tiles, each in bounds, one unit step
\* away, carrying the grid's value and satisfying the predicate; it omits no
\* such tile; and the tiles come in the order up, right, down, left.
C4_NeighboursExact ==
    Returned("get_neighbours") =>
        /\ Len(ret.neighbours) <= 4
        /\ \A k \in 1..Len(ret.neighbours) :
            /\ ret.neighbours[k].i \in 0..(Len(grid) - 1)
            /\ ret.neighbours[k].j \in 0..(Len(grid[1]) - 1)
            /\ Adjacent(call.tile, ret.neighbours[k])
            /\ ret.neighbours[k].value = grid[ret.neighbours[k].i + 1][ret.neighbours[k].j + 1]
            /\ Holds(predicate, call.tile, ret.neighbours[k])
        /\ \A b \in get_tiles(grid) :
            (Adjacent(call.tile, b) /\ Holds(predicate, call.tile, b))
                => \E k \in 1..Len(ret.neighbours) : ret.neighbours[k] = b
        /\ \A k, m \in 1..Len(ret.neighbours) :
            k < m => StepRank(call.tile, ret.neighbours[k]) < StepRank(call.tile, ret.neighbours[m])

\* Up is out of bounds, down is filtered by the predicate, right comes
\* before left.
C4_Witness ==
    /\ Returned("get_neighbours")
    /\ predicate = "match_value"
    /\ grid = RingGrid
    /\ call.tile = Tile(0, 1, 1)
    /\ ret.neighbours = <<Tile(0, 2, 1), Tile(0, 0, 1)>>

\* C5: the perimeter of a region with distinct coordinates is the number of
\* (tile, direction) pairs whose neighbouring coordinate is not a coordinate
\* of the region, sides facing outside the grid included; a single tile has
\* perimeter 4.
C5_PerimeterCountsOpenSides ==
    (Returned("get_perimeter")
        /\ Cardinality(Coordinates(call.region)) = Cardinality(call.region)) =>
        /\ ret.perimeter = Cardinality({s \in call.region \X {UP, RIGHT, DOWN, LEFT} :
                    <<s[1].i + s[2][1], s[1].j + s[2][2]>>
                        \notin Coordinates(call.region)})
        /\ Cardinality(call.region) = 1 => ret.perimeter = 4

\* Two tiles that touch only at a corner: no side is shared.
C5_Witness ==
    /\ Returned("get_perimeter")
    /\ Coordinates(call.region) = {<<0, 0>>, <<1, 1>>}
    /\ ret.perimeter = 8

\* C6: on a uniform grid with value-equality, get_all_regions returns one
\* region holding all rows * cols cells, and its perimeter is 2 * (rows + cols).
C6_UniformGridOneRegion ==
    (Uniform /\ predicate = "match_value") =>
        /\ Returned("get_all_regions") =>
            /\ Len(ret.regions) = 1
            /\ ret.regions[1] = get_tiles(grid)
            /\ Cardinality(ret.regions[1]) = Len(grid) * Len(grid[1])
        /\ Returned("get_perimeter") =>
            /\ call.region = get_tiles(grid)
            /\ ret.perimeter = 2 * (Len(grid) + Len(grid[1]))

C6_Witness ==
    /\ Uniform
    /\ predicate = "match_value"
    /\ Returned("get_perimeter")
    /\ regions = <<get_tiles(grid)>>
    /\ Len(grid) = 2
    /\ Len(grid[1]) = 2
    /\ ret.perimeter = 8

\* The two regions of the ring grid AAA / ABA / AAA.
RingA == {tile \in get_tiles(RingGrid) : tile.value = 1}

RingB == {Tile(1, 1, 2)}

\* C7 as stated: on the ring grid with value-equality there are exactly two
\* regions, the 8 A tiles and the B tile, of perimeters 8 and 4.
C7_RingPerimeterEight ==
    (grid = RingGrid /\ predicate = "match_value") =>
        /\ Returned("get_all_regions") =>
            /\ Len(ret.regions) = 2
            /\ {ret.regions[1], ret.regions[2]} = {RingA, RingB}
            /\ Cardinality(RingA) = 8
        /\ Returned("get_perimeter") =>
            /\ call.region = RingA => ret.perimeter = 8
            /\ call.region = RingB => ret.perimeter = 4

\* C7 amended: the A region, a ring, has perimeter 16 (12 outer sides and
\* the 4 sides around the hole); the rest as stated.
C7_RingPerimeterSixteen ==
    (grid = RingGrid /\ predicate = "match_value") =>
        /\ Returned("get_all_regions") =>
            /\ Len(ret.regions) = 2
            /\ {ret.regions[1], ret.regions[2]} = {RingA, RingB}
            /\ Cardinality(RingA) = 8
        /\ Returned("get_perimeter") =>
            /\ call.region \in {RingA, RingB}
            /\ call.region = RingA => ret.perimeter = 16
            /\ call.region = RingB => ret.perimeter = 4

C7_Witness ==
    /\ grid = RingGrid
    /\ predicate = "match_value"
    /\ Returned("get_perimeter")
    /\ Len(regions) = 2
    /\ call.region = RingA
    /\ ret.perimeter = 16

\* C8: on the four unit vectors, turn_right maps (di, dj) to (dj, -di) and
\* turn_left to (-dj, di), both give a unit vector again, a right turn and a
\* left turn in either order cancel, and four right turns give the start.
C8_RotationLaws ==
    (call.op \in {"turn_right", "turn_left"} /\ call.origin \in Units) =>
        /\ call.direction \in Units
        /\ ret.direction \in Units
        /\ call.op = "turn_right" => ret.direction = <<call.direction[2], -call.direction[1]>>
        /\ call.op = "turn_left" => ret.direction = <<-call.direction[2], call.direction[1]>>
        /\ call.chain = <<"turn_right", "turn_left">> => ret.direction = call.origin
        /\ call.chain = <<"turn_left", "turn_right">> => ret.direction = call.origin
        /\ call.chain = <<"turn_right", "turn_right", "turn_right", "turn_right">>
            => ret.direction = call.origin

C8_Witness ==
    /\ call.op = "turn_right"
    /\ call.origin = UP
    /\ call.chain = <<"turn_right", "turn_right", "turn_right", "turn_right">>
    /\ ret.direction = UP

\* C9: can_see is false when the direction has no vertical part and the
\* target is displaced vertically, false when it has no horizontal part and
\* the target is displaced horizontally, and otherwise the cross-product
\* test dv * direction.col = dh * direction.row; so a position sees itself,
\* d and -d agree, and the three examples come out true, false, true.
C9_CanSeeIsCollinearity ==
    call.op = "can_see" =>
        LET dv == call.target[1] - call.viewpoint[1]
            dh == call.target[2] - call.viewpoint[2]
            d == call.direction
        IN  /\ (d[1] = 0 /\ dv # 0) => ret.seen = FALSE
            /\ (d[2] = 0 /\ dh # 0) => ret.seen = FALSE
            /\ ~(d[1] = 0 /\ dv # 0) /\ ~(d[2] = 0 /\ dh # 0)
                => ret.seen = (dv * d[2] = dh * d[1])
            /\ call.viewpoint = call.target => ret.seen = TRUE
            /\ ret.seen = can_see(call.viewpoint, call.target, <<-d[1], -d[2]>>)
            /\ (call.viewpoint = <<0, 0>> /\ call.target = <<3, 0>> /\ d = <<1, 0>>)
                => ret.seen = TRUE
            /\ (call.viewpoint = <<0, 0>> /\ call.target = <<3, 1>> /\ d = <<1, 0>>)
                => ret.seen = FALSE
            /\ (call.viewpoint = <<0, 0>> /\ call.target = <<2, 2>> /\ d = <<1, 1>>)
                => ret.seen = TRUE

C9_Witness ==
    /\ call.op = "can_see"
    /\ call.viewpoint = <<0, 0>>
    /\ call.target = <<2, 2>>
    /\ call.direction = <<1, 1>>
    /\ ret.seen = TRUE

\* C10: the loop of get_region ends with an empty stack, no cell is added to
\* the discovered set twice even when copies of it wait on the stack, and
\* the grid is never changed.
C10_FloodFillTerminates ==
    /\ (pc = "fill") ~> (pc = "idle" /\ stack = <<>>)
    /\ [](\A k, m \in 1..Len(added) :
            k # m => <<added[k].i, added[k].j>> # <<added[m].i, added[m].j>>)
    /\ [][grid' = grid]_vars

\* The loop is running and a copy of an already discovered tile waits on the
\* stack next to other work.
C10_Witness ==
    /\ pc = "fill"
    /\ Len(stack) >= 2
    /\ \E k \in 1..Len(stack) : stack[k] \in tiles

====
